---- MODULE Spec2Model ----
(***************************************************************************)
(* Missile-defence game of src/src/App.tsx (types in src/unnamed/part_000).*)
(*                                                                         *)
(* The React component keeps one GameState value (useState) and a ref to   *)
(* the last rendered value (stateRef, synchronised by an effect).  The     *)
(* handlers read the ref for their guards and change the state through     *)
(* setGameState updaters, which receive the actual previous state.         *)
(*                                                                         *)
(* Numbers: every length is a fixed-point integer counted in 1/Unit of a   *)
(* canvas unit (1.5 is 30, 0.75 is 15, a rocket speed 0.8 + 0.2*level is   *)
(* 16 + 4*level); alpha is counted in steps of 0.02 (1 is 50).  Each       *)
(* setGameState updater is applied once, in call order, at the call.       *)
(* The `angle` field of a rocket is written once and never read by the     *)
(* simulation; it is left out.                                             *)
(***************************************************************************)
EXTENDS Integers, Sequences, FiniteSets, TLC

VARIABLES gameState, stateRef, alias, last, ticks

vars == <<gameState, stateRef, alias, last, ticks>>

----------------------------------------------------------------------------
(* Bounds of the exploration *)

\* frames (calls of update) explored from an initial state
MaxTicks == 3
\* cap on live rockets / interceptors accepted by the spawner and the tap
MaxRockets == 3
MaxInterceptors == 1
\* frames of a run that follows explosions to their end
DecayTicks == 90

----------------------------------------------------------------------------
(* Constants of App.tsx *)

Unit == 20

TARGET_SCORE == 3000
CANVAS_WIDTH == 800 * Unit
CANVAS_HEIGHT == 600 * Unit
EXPLOSION_MAX_RADIUS == 40 * Unit
\* 1.5
EXPLOSION_SPEED == (3 * Unit) \div 2
\* 0.8
ROCKET_SPEED_BASE == (8 * Unit) \div 10
\* the 0.2 of  ROCKET_SPEED_BASE + (s.level * 0.2)
ROCKET_SPEED_PER_LEVEL == (2 * Unit) \div 10
INTERCEPTOR_SPEED == 6 * Unit
\* alpha: 1, counted in steps of the 0.02 it loses per tick
ALPHA_ONE == 50
\* radius: 2 of a new explosion
EXPLOSION_START_RADIUS == 2 * Unit
\* score += 50
KILL_SCORE == 50
\* Math.floor(score / 500)
LEVEL_SCORE == 500

Point(x, y) == [x |-> x * Unit, y |-> y * Unit]

GameStatus == {"START", "PLAYING", "WON", "LOST", "LEVEL_COMPLETE"}

----------------------------------------------------------------------------
(* Sequence helpers: Array.map, Array.filter, Array.find *)

MapSeq(s, F(_)) == [i \in 1..Len(s) |-> F(s[i])]

RECURSIVE SumSeq(_)
SumSeq(s) == IF s = <<>> THEN 0 ELSE Head(s) + SumSeq(Tail(s))

CountSeq(s, T(_)) == Cardinality({i \in 1..Len(s) : T(s[i])})

\* index of the first element at position p, 0 when there is none (Array.find)
FindAt(s, p) ==
  IF \E i \in 1..Len(s) : s[i].pos = p
  THEN CHOOSE i \in 1..Len(s) : s[i].pos = p /\ \A j \in 1..(i-1) : s[j].pos # p
  ELSE 0

----------------------------------------------------------------------------
(* Geometry: dx, dy, Math.sqrt(dx*dx + dy*dy), (dx / dist) * speed *)

Dist2(a, b) == (b.x - a.x) * (b.x - a.x) + (b.y - a.y) * (b.y - a.y)

RECURSIVE SqrtBetween(_, _, _)
SqrtBetween(n, lo, hi) ==
  IF lo >= hi THEN lo
  ELSE LET mid == (lo + hi + 1) \div 2
       IN IF mid * mid <= n THEN SqrtBetween(n, mid, hi)
                            ELSE SqrtBetween(n, lo, mid - 1)

\* Math.sqrt, rounded down to the fixed-point grid
Sqrt(n) == SqrtBetween(n, 0, 2 * CANVAS_WIDTH)

\* a / b rounded toward zero
Quot(a, b) == IF a >= 0 THEN a \div b ELSE -((-a) \div b)

\* dist < speed  (both sides are non-negative)
Arrived(e) == Dist2(e.pos, e.target) < e.speed * e.speed

\* pos + (d / dist) * speed; only evaluated when dist >= speed > 0
Advance(e) ==
  LET dx == e.target.x - e.pos.x
      dy == e.target.y - e.pos.y
      dist == Sqrt(dx * dx + dy * dy)
      vx == Quot(dx * e.speed, dist)
      vy == Quot(dy * e.speed, dist)
  IN [e EXCEPT !.pos = [x |-> e.pos.x + vx, y |-> e.pos.y + vy]]

----------------------------------------------------------------------------
(* The GameState value *)

InitialCities ==
  << [id |-> "c1", pos |-> Point(150, 550), destroyed |-> FALSE],
     [id |-> "c2", pos |-> Point(250, 550), destroyed |-> FALSE],
     [id |-> "c3", pos |-> Point(350, 550), destroyed |-> FALSE],
     [id |-> "c4", pos |-> Point(450, 550), destroyed |-> FALSE],
     [id |-> "c5", pos |-> Point(550, 550), destroyed |-> FALSE],
     [id |-> "c6", pos |-> Point(650, 550), destroyed |-> FALSE] >>

InitialBatteries ==
  << [id |-> "b1", pos |-> Point(50, 550), ammo |-> 20, maxAmmo |-> 20, destroyed |-> FALSE],
     [id |-> "b2", pos |-> Point(400, 550), ammo |-> 40, maxAmmo |-> 40, destroyed |-> FALSE],
     [id |-> "b3", pos |-> Point(750, 550), ammo |-> 20, maxAmmo |-> 20, destroyed |-> FALSE] >>

\* useState<GameState>({...})
ConstructedState ==
  [score |-> 0, level |-> 1, status |-> "START",
   rockets |-> <<>>, interceptors |-> <<>>, explosions |-> <<>>,
   cities |-> InitialCities, batteries |-> InitialBatteries,
   destroyedCount |-> 0]

\* InitGameState with every battery holding 20
InitGameStateEvenAmmo ==
  [ConstructedState EXCEPT !.status = "PLAYING", !.batteries[2].ammo = 20,
                           !.batteries[2].maxAmmo = 20]

\* the value initGame passes to setGameState
InitGameState == [ConstructedState EXCEPT !.status = "PLAYING"]

\* what the handlers read through stateRef.current
RefView(g) ==
  [status |-> g.status, level |-> g.level, destroyedCount |-> g.destroyedCount,
   cities |-> g.cities, batteries |-> g.batteries]

----------------------------------------------------------------------------
(* spawnRocket *)

\* Math.random() is k/16 for a k of these sets
RANDOM_DEN == 4 * 4
TargetDraws == {15}
StartXDraws == {1}
IdDraws == {"id1"}

AvailableTargets(s) ==
  MapSeq(SelectSeq(s.cities, LAMBDA c : ~c.destroyed), LAMBDA c : c.pos)
  \o MapSeq(SelectSeq(s.batteries, LAMBDA b : ~b.destroyed), LAMBDA b : b.pos)

RocketSpeed(level) == ROCKET_SPEED_BASE + level * ROCKET_SPEED_PER_LEVEL

NewRocket(s, targetDraw, xDraw, id) ==
  LET availableTargets == AvailableTargets(s)
      target == availableTargets[((targetDraw * Len(availableTargets)) \div RANDOM_DEN) + 1]
      startX == (xDraw * CANVAS_WIDTH) \div RANDOM_DEN
  IN [id |-> id, pos |-> [x |-> startX, y |-> 0], target |-> target,
      speed |-> RocketSpeed(s.level)]

\* the state after spawnRocket(): s is stateRef.current, prev the updater's argument
SpawnRocket(prev, s, targetDraw, xDraw, id) ==
  IF s.status # "PLAYING" THEN prev
  ELSE IF Len(AvailableTargets(s)) = 0 THEN prev
  ELSE [prev EXCEPT !.rockets = Append(@, NewRocket(s, targetDraw, xDraw, id))]

----------------------------------------------------------------------------
(* handleCanvasClick *)

\* NearestBatteryIdx with dist <= minDist: the last battery of least distance
NearestBatteryIdxLast(batteries, x) ==
  LET live == {i \in 1..Len(batteries) : ~batteries[i].destroyed}
      D(i) == IF batteries[i].pos.x >= x THEN batteries[i].pos.x - x
                                        ELSE x - batteries[i].pos.x
  IN IF live = {} THEN -1
     ELSE (CHOOSE i \in live : /\ \A j \in live : D(i) <= D(j)
                               /\ \A j \in live : j > i => D(j) > D(i)) - 1

\* forEach over the batteries: the first non-destroyed battery of least |b.pos.x - x|
NearestBatteryIdx(batteries, x) ==
  LET live == {i \in 1..Len(batteries) : ~batteries[i].destroyed}
      D(i) == IF batteries[i].pos.x >= x THEN batteries[i].pos.x - x
                                        ELSE x - batteries[i].pos.x
  IN IF live = {} THEN -1
     ELSE (CHOOSE i \in live : /\ \A j \in live : D(i) <= D(j)
                               /\ \A j \in live : j < i => D(j) > D(i)) - 1

\* NewInterceptor without a speed
NewInterceptorStill(s, tap, id) ==
  LET battery == s.batteries[NearestBatteryIdx(s.batteries, tap.x) + 1]
  IN [id |-> id, pos |-> battery.pos, origin |-> battery.pos, target |-> tap,
      speed |-> 0, batteryIndex |-> NearestBatteryIdx(s.batteries, tap.x)]

NewInterceptor(s, tap, id) ==
  LET nearestBatteryIdx == NearestBatteryIdx(s.batteries, tap.x)
      battery == s.batteries[nearestBatteryIdx + 1]
  IN [id |-> id, pos |-> battery.pos, origin |-> battery.pos, target |-> tap,
      speed |-> INTERCEPTOR_SPEED, batteryIndex |-> nearestBatteryIdx]

\* the state after handleCanvasClick at logical coordinate tap
CanvasClick(prev, s, tap, id) ==
  IF s.status # "PLAYING" THEN prev
  ELSE IF NearestBatteryIdx(s.batteries, tap.x) = -1 THEN prev
  ELSE [prev EXCEPT !.interceptors = Append(@, NewInterceptor(s, tap, id))]

----------------------------------------------------------------------------
(* update: the setGameState updater, step by step *)

\* 2. Update Rockets: the rockets that did not reach their target, advanced
MovedRockets(rockets) ==
  MapSeq(SelectSeq(rockets, LAMBDA r : ~Arrived(r)), Advance)

\* Impacted with find comparing pos.y alone
ImpactedByHeight(structures, rockets) ==
  [i \in 1..Len(structures) |->
     IF \E k \in 1..Len(rockets) :
          /\ Arrived(rockets[k])
          /\ structures[i].pos.y = rockets[k].target.y
          /\ \A j \in 1..(i-1) : structures[j].pos.y # rockets[k].target.y
     THEN [structures[i] EXCEPT !.destroyed = TRUE]
     ELSE structures[i]]

\* 2. Hit target: cities.find / batteries.find by the rocket's target, destroyed = true
Impacted(structures, rockets) ==
  [i \in 1..Len(structures) |->
     IF \E k \in 1..Len(rockets) :
          Arrived(rockets[k]) /\ FindAt(structures, rockets[k].target) = i
     THEN [structures[i] EXCEPT !.destroyed = TRUE]
     ELSE structures[i]]

\* 3. Update Interceptors: the interceptors that did not reach their target, advanced
MovedInterceptors(interceptors) ==
  MapSeq(SelectSeq(interceptors, LAMBDA i : ~Arrived(i)), Advance)

\* MaxRadiusFor with currentPower = floor(destroyedCount / 5) * 0.5
MaxRadiusNoBase(destroyedCount) ==
  (EXPLOSION_MAX_RADIUS * (destroyedCount \div 5)) \div 2

\* EXPLOSION_MAX_RADIUS * currentPower, currentPower = 0.5 + floor(destroyedCount / 5) * 0.5
MaxRadiusFor(destroyedCount) ==
  (EXPLOSION_MAX_RADIUS * (1 + (destroyedCount \div 5))) \div 2

\* 3. Create explosion: what explosions.push appends, one per arrived interceptor
CreatedExplosions(interceptors, destroyedCount, ids) ==
  LET arrived == SelectSeq(interceptors, Arrived)
  IN [k \in 1..Len(arrived) |->
        [id |-> ids[k], pos |-> arrived[k].target,
         radius |-> EXPLOSION_START_RADIUS,
         maxRadius |-> MaxRadiusFor(destroyedCount),
         growing |-> TRUE, alpha |-> ALPHA_ONE]]

\* UpdatedExplosion without e.alpha -= 0.02
UpdatedExplosionNoFade(e) ==
  IF e.growing
  THEN [e EXCEPT !.radius = @ + EXPLOSION_SPEED,
                 !.growing = ~(e.radius + EXPLOSION_SPEED >= e.maxRadius)]
  ELSE [e EXCEPT !.radius = @ - (EXPLOSION_SPEED \div 2)]

\* 4. Update Explosions: one explosion, changed in place
UpdatedExplosion(e) ==
  IF e.growing
  THEN LET radius == e.radius + EXPLOSION_SPEED
       IN [e EXCEPT !.radius = radius, !.growing = ~(radius >= e.maxRadius)]
  ELSE [e EXCEPT !.radius = @ - (EXPLOSION_SPEED \div 2), !.alpha = @ - 1]

\* e.radius > 0 && e.alpha > 0 ? e : null
Kept(e) == e.radius > 0 /\ e.alpha > 0

\* 5. explosions.some(e => dist < e.radius)
Hit(r, explosions) ==
  \E k \in 1..Len(explosions) :
     /\ explosions[k].radius > 0
     /\ Dist2(r.pos, explosions[k].pos) < explosions[k].radius * explosions[k].radius

\* Resolved with the collision test run on the explosions of earlier ticks only
ResolvedBeforeCreation(prev, ids) ==
  LET rockets == MovedRockets(prev.rockets)
      pushed == MapSeq(prev.explosions
                         \o CreatedExplosions(prev.interceptors, prev.destroyedCount, ids),
                       UpdatedExplosion)
      older == SelectSeq(MapSeq(prev.explosions, UpdatedExplosion), Kept)
      kills == CountSeq(rockets, LAMBDA r : Hit(r, older))
  IN [rockets |-> SelectSeq(rockets, LAMBDA r : ~Hit(r, older)),
      interceptors |-> MovedInterceptors(prev.interceptors),
      explosions |-> SelectSeq(pushed, Kept),
      pushed |-> pushed,
      cities |-> Impacted(prev.cities, prev.rockets),
      batteries |-> Impacted(prev.batteries, prev.rockets),
      score |-> prev.score + KILL_SCORE * kills,
      destroyedCount |-> prev.destroyedCount + kills]

\* the locals of the updater when it reaches "6. Check Win/Loss and Level Up";
\* pushed is prev.explosions itself, which push and the in-place changes alter
Resolved(prev, ids) ==
  LET rockets == MovedRockets(prev.rockets)
      pushed == MapSeq(prev.explosions
                         \o CreatedExplosions(prev.interceptors, prev.destroyedCount, ids),
                       UpdatedExplosion)
      explosions == SelectSeq(pushed, Kept)
      kills == CountSeq(rockets, LAMBDA r : Hit(r, explosions))
  IN [rockets |-> SelectSeq(rockets, LAMBDA r : ~Hit(r, explosions)),
      interceptors |-> MovedInterceptors(prev.interceptors),
      explosions |-> explosions,
      pushed |-> pushed,
      cities |-> Impacted(prev.cities, prev.rockets),
      batteries |-> Impacted(prev.batteries, prev.rockets),
      score |-> prev.score + KILL_SCORE * kills,
      destroyedCount |-> prev.destroyedCount + kills]

AllDestroyed(batteries) == \A i \in 1..Len(batteries) : batteries[i].destroyed

\* LevelOf without the + 1
LevelOfNoBase(score) == score \div LEVEL_SCORE

\* Math.floor(score / 500) + 1
LevelOf(score) == (score \div LEVEL_SCORE) + 1

\* StatusAfter with the loss test ahead of the win test
StatusAfterLossFirst(prev, r) ==
  IF \A i \in 1..Len(r.batteries) : r.batteries[i].destroyed THEN "LOST"
  ELSE IF r.score >= TARGET_SCORE THEN "WON"
  ELSE prev.status

\* StatusAfter with score > TARGET_SCORE for the win
StatusAfterWinAbove(prev, r) ==
  IF r.score > TARGET_SCORE THEN "WON"
  ELSE IF \A i \in 1..Len(r.batteries) : r.batteries[i].destroyed THEN "LOST"
  ELSE prev.status

\* the status the if / else if of step 6 leaves in the local `status`
StatusAfter(prev, r) ==
  IF r.score >= TARGET_SCORE THEN "WON"
  ELSE IF AllDestroyed(r.batteries) THEN "LOST"
  ELSE prev.status

\* LevelsUp with the level test ahead of the loss test
LevelsUpBeforeLoss(prev, r) ==
  /\ ~(r.score >= TARGET_SCORE)
  /\ (r.score \div LEVEL_SCORE) + 1 > prev.level

\* whether step 6 takes the "Level Up!" return
LevelsUp(prev, r) ==
  /\ ~(r.score >= TARGET_SCORE)
  /\ ~AllDestroyed(r.batteries)
  /\ LevelOf(r.score) > prev.level

\* LevelUpReturn that starts the kill count of the new level at 0
LevelUpReturnResetsCount(prev, r) ==
  [prev EXCEPT !.level = (r.score \div LEVEL_SCORE) + 1,
               !.batteries = MapSeq(r.batteries, LAMBDA b : [b EXCEPT !.ammo = b.maxAmmo]),
               !.rockets = <<>>,
               !.interceptors = <<>>,
               !.score = r.score,
               !.destroyedCount = 0,
               !.explosions = r.pushed,
               !.cities = r.cities]

\* LevelUpReturn that forgets  rockets: [], interceptors: []
LevelUpReturnKeepsThreats(prev, r) ==
  [prev EXCEPT !.level = (r.score \div LEVEL_SCORE) + 1,
               !.batteries = MapSeq(r.batteries, LAMBDA b : [b EXCEPT !.ammo = b.maxAmmo]),
               !.rockets = r.rockets,
               !.interceptors = r.interceptors,
               !.score = r.score,
               !.explosions = r.pushed,
               !.cities = r.cities]

\* LevelUpReturn that rebuilds the batteries it refills
LevelUpReturnRepairs(prev, r) ==
  [prev EXCEPT !.level = (r.score \div LEVEL_SCORE) + 1,
               !.batteries = MapSeq(r.batteries,
                                    LAMBDA b : [b EXCEPT !.ammo = b.maxAmmo,
                                                         !.destroyed = FALSE]),
               !.rockets = <<>>,
               !.interceptors = <<>>,
               !.score = r.score,
               !.explosions = r.pushed,
               !.cities = r.cities]

\* LevelUpReturn that leaves score out of the returned object
LevelUpReturnDropsScore(prev, r) ==
  [prev EXCEPT !.level = (r.score \div LEVEL_SCORE) + 1,
               !.batteries = MapSeq(r.batteries, LAMBDA b : [b EXCEPT !.ammo = b.maxAmmo]),
               !.rockets = <<>>,
               !.interceptors = <<>>,
               !.explosions = r.pushed,
               !.cities = r.cities]

\* return { ...prev, level: newLevel, batteries, rockets: [], interceptors: [], score }
LevelUpReturn(prev, r) ==
  [prev EXCEPT !.level = LevelOf(r.score),
               !.batteries = MapSeq(r.batteries, LAMBDA b : [b EXCEPT !.ammo = b.maxAmmo]),
               !.rockets = <<>>,
               !.interceptors = <<>>,
               !.score = r.score,
               \* ...prev: the same arrays and objects, as the updater left them
               !.explosions = r.pushed,
               !.cities = r.cities]

\* return { ...prev, rockets, interceptors, explosions, cities, batteries, score, status, destroyedCount }
NormalReturn(prev, r) ==
  [prev EXCEPT !.rockets = r.rockets,
               !.interceptors = r.interceptors,
               !.explosions = r.explosions,
               !.cities = r.cities,
               !.batteries = r.batteries,
               !.score = r.score,
               !.status = StatusAfter(prev, r),
               !.destroyedCount = r.destroyedCount]

\* setGameState(prev => ...) of update; ids are the ids of the explosions it creates
Step(prev, ids) ==
  LET r == Resolved(prev, ids)
  IN IF LevelsUp(prev, r) THEN LevelUpReturn(prev, r) ELSE NormalReturn(prev, r)

NumArrived(interceptors) == CountSeq(interceptors, Arrived)

----------------------------------------------------------------------------
(* The component: state, handlers, effect *)

\* the tap the interceptor of which meets the rockets falling on battery b1
KillTap == Point(50, 540)

TapPoints == {KillTap}

----------------------------------------------------------------------------
(* States of a running session.  A frame moves a rocket by one or two canvas
   units of the 550 it has to fall, so the states in which rockets land and
   explosions die lie hundreds of frames after initGame.  The exploration
   starts from the constructed state and from states of this kind, each built
   from the operators above: a rocket of the spawner advanced frame by frame,
   an explosion of an interceptor updated frame by frame. *)

RECURSIVE Flown(_, _)
\* rocket r after k frames in flight
Flown(r, k) ==
  IF k <= 0 \/ Arrived(r) THEN r
  ELSE IF k = 1 THEN Advance(r)
  ELSE Flown(Flown(r, k \div 2), k - (k \div 2))

RECURSIVE FramesWithin(_, _, _)
\* the frames, at most k, rocket r needs to stand on point p of its path
FramesWithin(r, p, k) ==
  IF k = 0 \/ r.pos = p \/ Arrived(r) THEN 0
  ELSE 1 + FramesWithin(Advance(r), p, k - 1)

RECURSIVE FramesTo(_, _)
\* the frames rocket r needs to stand on point p of its path
FramesTo(r, p) ==
  LET k == FramesWithin(r, p, 32)
  IN IF k < 32 THEN k ELSE k + FramesTo(Flown(r, k), p)

\* a rocket spawned straight above target, n frames before it stands on p
RocketBefore(id, level, target, p, n) ==
  LET r == [id |-> id, pos |-> [x |-> target.x, y |-> 0], target |-> target,
            speed |-> RocketSpeed(level)]
  IN Flown(r, FramesTo(r, p) - n)

RECURSIVE Aged(_, _)
\* explosion e after k frames
Aged(e, k) ==
  IF k <= 0 \/ ~Kept(e) THEN e
  ELSE IF k = 1 THEN UpdatedExplosion(e)
  ELSE Aged(Aged(e, k \div 2), k - (k \div 2))

RECURSIVE LifeWithin(_, _)
\* the frames, at most k, after which explosion e is dropped
LifeWithin(e, k) ==
  IF k = 0 THEN 0
  ELSE IF ~Kept(UpdatedExplosion(e)) THEN 1
  ELSE 1 + LifeWithin(UpdatedExplosion(e), k - 1)

RECURSIVE Lifetime(_)
\* the frames after which explosion e is dropped
Lifetime(e) ==
  LET k == LifeWithin(e, 32)
  IN IF k < 32 \/ ~Kept(Aged(e, k)) THEN k ELSE k + Lifetime(Aged(e, k))

\* an explosion set off at p with destroyedCount kills, n frames before it is dropped
ExplosionBefore(id, p, destroyedCount, n) ==
  LET e == CreatedExplosions(<<[pos |-> p, target |-> p, speed |-> INTERCEPTOR_SPEED]>>,
                             destroyedCount, <<id>>)[1]
  IN Aged(e, Lifetime(e) - n)

\* score, level and destroyedCount: nine kills on level 1; 59 kills, each of
\* the five level-ups reached by a frame with one kill
SessionProgress ==
  { [score |-> 450, level |-> 1, destroyedCount |-> 9],
    [score |-> 2950, level |-> 6, destroyedCount |-> 54] }

Destroy(structures, ids) ==
  MapSeq(structures, LAMBDA c : [c EXCEPT !.destroyed = (c.id \in ids)])

\* which structures earlier rockets have hit
SessionDamage ==
  { {}, {"b2", "b3"}, {"c2", "c3", "c4", "c5", "c6"} }

PosB1 == InitialBatteries[1].pos
PosC1 == InitialCities[1].pos

\* the rockets in flight: Land(n) reaches battery b1 so that frame n resolves
\* the impact, Pass(n) stands on the tap point after frame n, City(n) is Land(n)
\* for city c1
SessionRockets(level) ==
  LET tap == KillTap
      Land(n) == RocketBefore("r1", level, PosB1, PosB1, n - 1)
      Pass(n) == RocketBefore("r2", level, PosB1, tap, n)
      Near(n) == RocketBefore("r3", level, PosB1, tap, n + 1)
      City(n) == RocketBefore("r4", level, PosC1, PosC1, n - 1)
  IN { <<>>, <<Land(1)>>, <<Land(1), Pass(2)>>, <<Land(2), Pass(2)>>,
       <<Pass(2), Near(2)>>, <<City(1)>> }

\* the explosions still on screen: none, or one that the third frame drops
SessionExplosions(destroyedCount) ==
  { <<>>, <<ExplosionBefore("e1", Point(400, 300), destroyedCount, 3)>> }

SessionStates ==
  UNION { { [InitGameState EXCEPT
               !.score = p.score, !.level = p.level,
               !.destroyedCount = p.destroyedCount,
               !.cities = Destroy(InitialCities, d),
               !.batteries = Destroy(InitialBatteries, d),
               !.rockets = rockets, !.explosions = explosions] :
            d \in SessionDamage,
            rockets \in SessionRockets(p.level),
            explosions \in SessionExplosions(p.destroyedCount) } :
          p \in SessionProgress }

\* the tap of a handler that is not handleCanvasClick
NoTap == [x |-> -1, y |-> -1]

Init ==
  /\ gameState \in {ConstructedState} \cup SessionStates
  /\ stateRef = RefView(gameState)
  /\ alias = [cities |-> TRUE, batteries |-> TRUE]
  /\ last = [op |-> "construct", ran |-> FALSE, before |-> gameState, prev |-> gameState,
             tap |-> NoTap]
  /\ ticks = 0

\* useEffect(() => { stateRef.current = gameState }, [gameState])
SyncRef ==
  /\ stateRef' = RefView(gameState)
  /\ alias' = [cities |-> TRUE, batteries |-> TRUE]
  /\ UNCHANGED <<gameState, last, ticks>>

\* onClick={initGame}: the buttons exist while gameState.status !== 'PLAYING'.
\* The click is a discrete event: its render commits before the handler's
\* event ends and the effect of that commit (stateRef.current = gameState)
\* runs with it, so no frame and no tap sees the reference of the old session.
InitGame ==
  /\ gameState.status # "PLAYING"
  /\ gameState' = InitGameState
  /\ stateRef' = RefView(InitGameState)
  /\ alias' = [cities |-> TRUE, batteries |-> TRUE]
  /\ last' = [op |-> "initGame", ran |-> TRUE, before |-> gameState, prev |-> gameState,
              tap |-> NoTap]
  /\ UNCHANGED ticks

\* onMouseDown / onTouchStart, for a tap of the set taps and an id of idDraws
ClickWith(taps, idDraws) ==
  \E tap \in taps, id \in idDraws :
     /\ Len(gameState.interceptors) < MaxInterceptors
     /\ gameState' = CanvasClick(gameState, stateRef, tap, id)
     /\ last' = [op |-> "click",
                 ran |-> (stateRef.status = "PLAYING"
                            /\ NearestBatteryIdx(stateRef.batteries, tap.x) # -1),
                 before |-> gameState, prev |-> gameState, tap |-> tap]
     /\ UNCHANGED <<stateRef, alias, ticks>>

HandleCanvasClick == ClickWith(TapPoints, IdDraws)

\* stateRef.current after the updater ran: the city and battery objects it
\* still shares with the state carry the in-place changes (r is Resolved)
Shared(r) ==
  [stateRef EXCEPT !.cities = IF alias.cities THEN r.cities ELSE @,
                   !.batteries = IF alias.batteries THEN r.batteries ELSE @]

\* update() of one frame of the first maxTicks, with the outcomes of its
\* Math.random() calls: spawn (line 219) drawn from spawns, ids from idDraws
Frame(idDraws, spawns, maxTicks) ==
  /\ ticks < maxTicks
  /\ ticks' = ticks + 1
  /\ IF stateRef.status # "PLAYING"
     THEN /\ last' = [op |-> "update", ran |-> FALSE, before |-> gameState,
                           prev |-> gameState, tap |-> NoTap]
          /\ UNCHANGED <<gameState, stateRef, alias>>
     ELSE \E spawn \in spawns, targetDraw \in TargetDraws, xDraw \in StartXDraws,
             id \in idDraws :
            LET prev == IF spawn /\ Len(gameState.rockets) < MaxRockets
                        THEN SpawnRocket(gameState, stateRef, targetDraw, xDraw, id)
                        ELSE gameState
            IN \E ids \in [1..NumArrived(prev.interceptors) -> idDraws] :
                 /\ gameState' = Step(prev, ids)
                 /\ stateRef' = Shared(Resolved(prev, ids))
                 /\ alias' = [alias EXCEPT
                                !.batteries = @ /\ ~LevelsUp(prev, Resolved(prev, ids))]
                 /\ last' = [op |-> "update", ran |-> TRUE, before |-> gameState,
                             prev |-> prev, tap |-> NoTap]

Update == Frame(IdDraws, BOOLEAN, MaxTicks)

Next == InitGame \/ HandleCanvasClick \/ Update \/ SyncRef

Spec == Init /\ [][Next]_vars

----------------------------------------------------------------------------
(* handleCanvasClick over the canvas: taps on and between the batteries, at
   the corners and in the sky, in sessions with every set of batteries lost
   that leaves one standing *)

TapGrid ==
  { Point(50, 540), Point(225, 300), Point(400, 300), Point(575, 100),
    Point(700, 550), Point(0, 0), Point(800, 600) }

BatteryLosses == (SUBSET {"b1", "b2", "b3"}) \ {{"b1", "b2", "b3"}}

TapStates ==
  { [InitGameState EXCEPT
       !.score = p.score, !.level = p.level, !.destroyedCount = p.destroyedCount,
       !.cities = Destroy(InitialCities, c),
       !.batteries = Destroy(InitialBatteries, d)] :
    p \in SessionProgress, c \in {{}, {"c1", "c4"}}, d \in BatteryLosses }

InitTap ==
  /\ gameState \in {ConstructedState} \cup TapStates
  /\ stateRef = RefView(gameState)
  /\ alias = [cities |-> TRUE, batteries |-> TRUE]
  /\ last = [op |-> "construct", ran |-> FALSE, before |-> gameState, prev |-> gameState,
             tap |-> NoTap]
  /\ ticks = 0

TapAnywhere == ClickWith(TapGrid, IdDraws)

NextTap == TapAnywhere

SpecTap == InitTap /\ [][NextTap]_vars

----------------------------------------------------------------------------
(* The ids: Math.random().toString(36).substr(2, 9), one draw for each rocket,
   interceptor and explosion.  Two draws may give the same string or
   different strings; a started game run with both outcomes. *)

TwoIds == {"id1", "id2"}

InitIds ==
  /\ gameState = InitGameState
  /\ stateRef = RefView(gameState)
  /\ alias = [cities |-> TRUE, batteries |-> TRUE]
  /\ last = [op |-> "initGame", ran |-> TRUE, before |-> ConstructedState,
             prev |-> ConstructedState, tap |-> NoTap]
  /\ ticks = 0

UpdateAnyId == Frame(TwoIds, BOOLEAN, MaxTicks)

ClickAnyId == ClickWith(TapPoints, TwoIds)

NextIds == UpdateAnyId \/ ClickAnyId \/ SyncRef

SpecIds == InitIds /\ [][NextIds]_vars

----------------------------------------------------------------------------
(* Explosions followed to their end: frames that spawn nothing, from a
   session with an explosion one frame old (no kill, five kills and nine kills
   before it), and from the session in which an interceptor is on its way to
   two rockets worth a level while an older explosion fades out. *)

\* the explosion of an interceptor that arrived at p, after the frame that made it
NewExplosion(id, p, destroyedCount) ==
  UpdatedExplosion(
    CreatedExplosions(<<[pos |-> p, target |-> p, speed |-> INTERCEPTOR_SPEED]>>,
                      destroyedCount, <<id>>)[1])

DecayStates ==
  { [InitGameState EXCEPT
       !.score = KILL_SCORE * n, !.destroyedCount = n,
       !.explosions = <<NewExplosion("e1", Point(400, 300), n)>>] : n \in {0, 5, 9} }
  \cup
  { LET fading == ExplosionBefore("e1", Point(400, 300), 9, 2)
        s == CHOOSE t \in SessionStates :
               /\ t.score = 450 /\ Len(t.rockets) = 2
               /\ t.rockets[1].id = "r2" /\ t.rockets[2].id = "r3"
               /\ t.cities = InitialCities /\ t.batteries = InitialBatteries
               /\ t.explosions # <<>>
        session == [s EXCEPT !.explosions = <<fading>>]
    IN CanvasClick(session, RefView(session), KillTap, "id1") }

InitDecay ==
  /\ gameState \in DecayStates
  /\ stateRef = RefView(gameState)
  /\ alias = [cities |-> TRUE, batteries |-> TRUE]
  /\ last = [op |-> "construct", ran |-> FALSE, before |-> gameState, prev |-> gameState,
             tap |-> NoTap]
  /\ ticks = 0

\* update() in a frame whose Math.random() draw spawns nothing
QuietFrame == Frame(IdDraws, {FALSE}, DecayTicks)

NextDecay == QuietFrame

\* requestAnimationFrame(gameLoop) at the end of every gameLoop: frames keep coming
SpecDecay == InitDecay /\ [][NextDecay]_vars /\ WF_vars(QuietFrame)

----------------------------------------------------------------------------
(* Properties.  `last` records the handler that ran last: before is the state
   it found, prev the state its updater received (after the spawner's rocket
   was appended), gameState the state it left. *)

Before == last.before
Prev == last.prev

\* the updater of update() ran in the last handler
Ticked == last.op = "update" /\ last.ran

NoBatteryLeft(g) == \A i \in 1..Len(g.batteries) : g.batteries[i].destroyed

\* the score passed a multiple of 500 between states g0 and g1
CrossedLevel(g0, g1) == (g1.score \div 500) > (g0.score \div 500)

\* C1: a tick on a PLAYING state that ends with score >= 3000 and every
\* battery destroyed ends WON, not LOST
C1_WinPrecedence ==
  (Ticked /\ Prev.status = "PLAYING"
     /\ gameState.score >= 3000 /\ NoBatteryLeft(gameState))
  => gameState.status = "WON"

\* a tick in which the last battery fell and the score reached 3000
C1_Witness ==
  /\ Ticked /\ Prev.status = "PLAYING"
  /\ Prev.score < 3000 /\ ~NoBatteryLeft(Prev)
  /\ gameState.score >= 3000 /\ NoBatteryLeft(gameState)
  /\ gameState.status = "WON"

\* C2: WON and LOST are terminal: only initGame leaves them, and they are
\* entered only from PLAYING
C2_Terminal ==
  /\ (last.op # "initGame" /\ Before.status \in {"WON", "LOST"})
       => gameState.status = Before.status
  /\ (gameState.status \in {"WON", "LOST"} /\ gameState.status # Before.status)
       => Before.status = "PLAYING"

\* C3: across a tick the score grows by 50 for each kill counted in
\* destroyedCount
C3_KillAccounting ==
  Ticked => gameState.score - Prev.score
              = 50 * (gameState.destroyedCount - Prev.destroyedCount)

\* C4: score and destroyedCount never decrease except by initGame, which sets
\* both to 0; a level-up does not reset destroyedCount
C4_Monotone ==
  /\ last.op # "initGame" => /\ gameState.score >= Before.score
                             /\ gameState.destroyedCount >= Before.destroyedCount
  /\ last.op = "initGame" => gameState.score = 0 /\ gameState.destroyedCount = 0

\* a level-up tick that scored and kept a positive destroyedCount
C4_Witness ==
  /\ Ticked /\ gameState.level > Prev.level
  /\ gameState.score > Prev.score
  /\ Prev.destroyedCount > 0 /\ gameState.destroyedCount = Prev.destroyedCount

\* C5 as claimed: whenever the score crosses a multiple of 500 in a tick, no
\* rocket and no interceptor is left after it
C5_CrossingClears ==
  (Ticked /\ CrossedLevel(Prev, gameState))
  => gameState.rockets = <<>> /\ gameState.interceptors = <<>>

\* C5 amended: whenever the score crosses a multiple of 500 in a tick that
\* ends neither WON nor LOST, no rocket and no interceptor is left after it
C5_LevelUpClears ==
  (Ticked /\ CrossedLevel(Prev, gameState) /\ gameState.status \notin {"WON", "LOST"})
  => gameState.rockets = <<>> /\ gameState.interceptors = <<>>

\* a level-up tick that found more rockets than it killed
C5_Witness ==
  /\ Ticked /\ CrossedLevel(Prev, gameState)
  /\ gameState.status = "PLAYING"
  /\ 50 * Len(Prev.rockets) > gameState.score - Prev.score
  /\ gameState.rockets = <<>> /\ gameState.interceptors = <<>>

\* C6: a tick on a PLAYING state that ends with every battery destroyed and
\* score < 3000 ends LOST, whatever the score did; with a battery left it
\* never ends LOST, also when every city is destroyed
C6_LossDetection ==
  (Ticked /\ Prev.status = "PLAYING")
  => /\ (NoBatteryLeft(gameState) /\ gameState.score < 3000)
          => gameState.status = "LOST"
     /\ ~NoBatteryLeft(gameState) => gameState.status # "LOST"

\* the last battery fell in a tick that also took the score across a level
\* boundary
C6_Witness ==
  /\ Ticked /\ Prev.status = "PLAYING" /\ ~NoBatteryLeft(Prev)
  /\ CrossedLevel(Prev, gameState) /\ gameState.score < 3000
  /\ gameState.status = "LOST"

\* dist < speed for rocket or interceptor e
Reached(e) ==
  (e.target.x - e.pos.x) * (e.target.x - e.pos.x)
    + (e.target.y - e.pos.y) * (e.target.y - e.pos.y) < e.speed * e.speed

\* rocket r1 is rocket r0 one tick later: moved by its speed toward its
\* target (to the fixed-point grid off the axes), not beyond it
MovedBySpeed(r0, r1) ==
  LET step == (r1.pos.x - r0.pos.x) * (r1.pos.x - r0.pos.x)
                + (r1.pos.y - r0.pos.y) * (r1.pos.y - r0.pos.y)
      s == r0.speed
      onAxis == r0.pos.x = r0.target.x \/ r0.pos.y = r0.target.y
  IN /\ r1.id = r0.id /\ r1.target = r0.target /\ r1.speed = r0.speed
     /\ IF onAxis THEN step = s * s
                  ELSE (s - 2) * (s - 2) <= step /\ step <= s * s
     /\ (r0.target.x - r1.pos.x) * (r0.target.x - r0.pos.x) >= 0
     /\ (r0.target.y - r1.pos.y) * (r0.target.y - r0.pos.y) >= 0
     /\ (r0.target.x - r1.pos.x) * (r0.target.x - r1.pos.x)
          + (r0.target.y - r1.pos.y) * (r0.target.y - r1.pos.y)
        < (r0.target.x - r0.pos.x) * (r0.target.x - r0.pos.x)
          + (r0.target.y - r0.pos.y) * (r0.target.y - r0.pos.y)

\* the flags of structures after a tick whose landed rockets are `landed`
FlagsFollow(before, after, landed) ==
  /\ Len(after) = Len(before)
  /\ \A i \in 1..Len(before) :
       /\ after[i].pos = before[i].pos
       /\ after[i].destroyed
            <=> (before[i].destroyed
                   \/ \E k \in landed : Prev.rockets[k].target = before[i].pos)

\* C7: a tick removes every rocket with dist < speed and marks the city or
\* battery at its target destroyed (and no other); every rocket it leaves is
\* a rocket with dist >= speed moved by its speed toward its target
C7_Arrival ==
  Ticked =>
    LET landed == {k \in 1..Len(Prev.rockets) : Reached(Prev.rockets[k])}
    IN /\ FlagsFollow(Prev.cities, gameState.cities, landed)
       /\ FlagsFollow(Prev.batteries, gameState.batteries, landed)
       /\ \A k \in landed :
            \/ \E i \in 1..Len(gameState.cities) :
                 gameState.cities[i].pos = Prev.rockets[k].target
            \/ \E i \in 1..Len(gameState.batteries) :
                 gameState.batteries[i].pos = Prev.rockets[k].target
       /\ Len(gameState.rockets) <= Len(Prev.rockets) - Cardinality(landed)
       /\ \A j \in 1..Len(gameState.rockets) :
            \E k \in (1..Len(Prev.rockets)) \ landed :
               MovedBySpeed(Prev.rockets[k], gameState.rockets[j])

\* a tick in which one rocket landed on an intact structure and another flew on
C7_Witness ==
  /\ Ticked
  /\ \E k \in 1..Len(Prev.rockets) :
       /\ Reached(Prev.rockets[k])
       /\ \E i \in 1..Len(Prev.batteries) :
            /\ Prev.batteries[i].pos = Prev.rockets[k].target
            /\ ~Prev.batteries[i].destroyed /\ gameState.batteries[i].destroyed
  /\ gameState.rockets # <<>>

\* C8: update() changes nothing of a state whose status is not PLAYING
C8_NoOpUnlessPlaying ==
  (last.op = "update" /\ Before.status # "PLAYING") => gameState = Before

\* C9: the explosions a tick creates are the last of the collection, one for
\* each interceptor with dist < speed, at its target, with radius 2 grown once
\* (3.5), growing, alpha 1 and maxRadius 40 * (0.5 + floor(destroyedCount / 5)
\* * 0.5) for the destroyedCount before the tick; the others kept their
\* maxRadius
C9_PowerScaling ==
  Ticked =>
    LET arrived == SelectSeq(Prev.interceptors, Reached)
        k == Len(arrived)
        n == Len(gameState.explosions)
    IN /\ n >= k
       /\ \A j \in 1..k :
            LET e == gameState.explosions[n - k + j]
            IN /\ e.pos = arrived[j].target
               /\ 2 * e.radius = 4 * Unit + 3 * Unit
               /\ e.growing
               /\ e.alpha = 50
               /\ 2 * e.maxRadius = 40 * Unit * (1 + (Prev.destroyedCount \div 5))
       /\ \A j \in 1..(n - k) :
            \E i \in 1..Len(Prev.explosions) :
               /\ gameState.explosions[j].id = Prev.explosions[i].id
               /\ gameState.explosions[j].pos = Prev.explosions[i].pos
               /\ gameState.explosions[j].maxRadius = Prev.explosions[i].maxRadius

\* a tick that created an explosion beside an older one and counted a kill
\* that raises the power
C9_Witness ==
  /\ Ticked
  /\ \E i \in 1..Len(Prev.interceptors) : Reached(Prev.interceptors[i])
  /\ Len(gameState.explosions) >= 2
  /\ (gameState.destroyedCount \div 5) > (Prev.destroyedCount \div 5)

\* C10: after a tick on a PLAYING state no explosion of the collection has
\* radius <= 0 or alpha <= 0
C10_NoSpentExplosion ==
  (Ticked /\ Prev.status = "PLAYING")
  => \A i \in 1..Len(gameState.explosions) :
        gameState.explosions[i].radius > 0 /\ gameState.explosions[i].alpha > 0

\* C11: a tick that ends neither WON nor LOST sets the level to
\* floor(score / 500) + 1 and every battery's ammo to maxAmmo when that number
\* exceeds the level, and leaves the level alone otherwise; no handler other
\* than initGame lowers the level
C11_LevelUp ==
  /\ (Ticked /\ gameState.status \notin {"WON", "LOST"})
       => IF (gameState.score \div 500) + 1 > Prev.level
          THEN /\ gameState.level = (gameState.score \div 500) + 1
               /\ \A i \in 1..Len(gameState.batteries) :
                    gameState.batteries[i].ammo = gameState.batteries[i].maxAmmo
          ELSE gameState.level = Prev.level
  /\ last.op # "initGame" => gameState.level >= Before.level

\* a tick raised the level while a battery lay destroyed
C11_Witness ==
  /\ Ticked /\ gameState.status = "PLAYING"
  /\ gameState.level = Prev.level + 1
  /\ gameState.score >= 500 * Prev.level
  /\ \E i \in 1..Len(gameState.batteries) : gameState.batteries[i].destroyed
  /\ \E i \in 1..Len(gameState.batteries) : ~gameState.batteries[i].destroyed

\* C12: initGame, from START, WON or LOST and whatever the state holds, leaves
\* score 0, level 1, destroyedCount 0, no rocket, interceptor or explosion, the
\* six cities and three batteries at their positions, none destroyed, ammo =
\* maxAmmo = 20, 40, 20, and status PLAYING: the same state every time
C12_RestartCanonical ==
  last.op = "initGame" =>
    /\ Before.status \in {"START", "WON", "LOST"}
    /\ gameState.score = 0 /\ gameState.level = 1 /\ gameState.destroyedCount = 0
    /\ gameState.rockets = <<>> /\ gameState.interceptors = <<>>
    /\ gameState.explosions = <<>>
    /\ gameState.status = "PLAYING"
    /\ gameState.cities =
         [i \in 1..6 |-> [id |-> <<"c1", "c2", "c3", "c4", "c5", "c6">>[i],
                          pos |-> [x |-> (50 + 100 * i) * Unit, y |-> 550 * Unit],
                          destroyed |-> FALSE]]
    /\ gameState.batteries =
         [i \in 1..3 |-> [id |-> <<"b1", "b2", "b3">>[i],
                          pos |-> [x |-> <<50, 400, 750>>[i] * Unit, y |-> 550 * Unit],
                          ammo |-> <<20, 40, 20>>[i],
                          maxAmmo |-> <<20, 40, 20>>[i],
                          destroyed |-> FALSE]]
    /\ DOMAIN gameState = {"score", "level", "status", "rockets", "interceptors",
                           "explosions", "cities", "batteries", "destroyedCount"}

\* initGame ran on a lost game that still held a rocket, a score and ruins
C12_Witness ==
  /\ last.op = "initGame"
  /\ Before.status = "LOST" /\ Before.score > 0 /\ Before.level > 1
  /\ Before.rockets # <<>>
  /\ \E i \in 1..Len(Before.batteries) : Before.batteries[i].destroyed

\* C13: a tap handled while the status is not PLAYING, or while every battery
\* is destroyed, leaves the game state as it was
C13_DegenerateTap ==
  (last.op = "click" /\ (Before.status # "PLAYING" \/ NoBatteryLeft(Before)))
  => gameState = Before

\* |battery k's x - the tap's x| for the tap the last handler got
TapDist(k) ==
  IF Before.batteries[k].pos.x >= last.tap.x
  THEN Before.batteries[k].pos.x - last.tap.x
  ELSE last.tap.x - Before.batteries[k].pos.x

\* C14: a tap at (x, y) handled while PLAYING with a battery standing appends
\* one interceptor: from the standing battery of least |battery.x - x|, the
\* first of them on a tie, to (x, y), speed 6, batteryIndex that battery's
\* index; nothing else changes, no ammo is deducted
C14_TapToFire ==
  (last.op = "click" /\ Before.status = "PLAYING" /\ ~NoBatteryLeft(Before))
  => LET n == Len(Before.interceptors)
         i == gameState.interceptors[n + 1]
         b == i.batteryIndex + 1
         live == {k \in 1..Len(Before.batteries) : ~Before.batteries[k].destroyed}
     IN /\ Len(gameState.interceptors) = n + 1
        /\ SubSeq(gameState.interceptors, 1, n) = Before.interceptors
        /\ b \in live
        /\ \A k \in live : TapDist(b) <= TapDist(k) /\ (k < b => TapDist(k) > TapDist(b))
        /\ i.pos = Before.batteries[b].pos
        /\ i.origin = Before.batteries[b].pos
        /\ i.target = last.tap
        /\ i.speed = 6 * Unit
        /\ [gameState EXCEPT !.interceptors = Before.interceptors] = Before

\* a tap halfway between two standing batteries, with the battery nearest to
\* other taps destroyed
C14_Witness ==
  /\ last.op = "click" /\ Before.status = "PLAYING"
  /\ Len(gameState.interceptors) = Len(Before.interceptors) + 1
  /\ Before.batteries[1].destroyed
  /\ ~Before.batteries[2].destroyed /\ ~Before.batteries[3].destroyed
  /\ TapDist(2) = TapDist(3)
  /\ gameState.interceptors[Len(gameState.interceptors)].batteryIndex = 1

\* the rockets of Prev the last tick caught: moved, then inside an explosion
\* the tick left alive
Caught ==
  {k \in 1..Len(Prev.rockets) :
     /\ ~Reached(Prev.rockets[k])
     /\ \E j \in 1..Len(gameState.explosions) :
          LET e == gameState.explosions[j]
          IN /\ e.radius > 0 /\ e.alpha > 0
             /\ Dist2(Advance(Prev.rockets[k]).pos, e.pos) < e.radius * e.radius}

\* C15: a tick moves rockets, then interceptors (creating explosions), then
\* ages explosions, then tests collisions: a rocket standing at the target of
\* an interceptor that arrives in the tick is caught in that tick, the caught
\* rockets are gone after it and the score grew by exactly 50 for each
C15_SameTickKill ==
  Ticked =>
    /\ \A k \in 1..Len(Prev.rockets), j \in 1..Len(Prev.interceptors) :
         (/\ ~Reached(Prev.rockets[k])
          /\ Reached(Prev.interceptors[j])
          /\ \/ Advance(Prev.rockets[k]).pos = Prev.interceptors[j].target
             \/ Prev.rockets[k].pos = Prev.interceptors[j].target)
         => k \in Caught
    /\ \A k \in Caught : \A j \in 1..Len(gameState.rockets) :
         gameState.rockets[j] # Advance(Prev.rockets[k])
    /\ gameState.score = Prev.score + 50 * Cardinality(Caught)

\* the only explosion of the tick is the one an interceptor made in it, and a
\* rocket stood at its centre
C15_Witness ==
  /\ Ticked /\ Prev.explosions = <<>>
  /\ \E k \in 1..Len(Prev.rockets), j \in 1..Len(Prev.interceptors) :
       /\ Reached(Prev.interceptors[j])
       /\ ~Reached(Prev.rockets[k])
       /\ Advance(Prev.rockets[k]).pos = Prev.interceptors[j].target
  /\ gameState.score = Prev.score + 50

\* the positions of the cities and batteries standing in state g
Standing(g) ==
  {g.cities[i].pos : i \in {k \in 1..Len(g.cities) : ~g.cities[k].destroyed}}
  \cup {g.batteries[i].pos : i \in {k \in 1..Len(g.batteries) : ~g.batteries[k].destroyed}}

\* C16: the spawner of a frame either changes nothing or appends one rocket
\* at y = 0, of speed 0.8 + 0.2 * level for the level of the state, aimed at a
\* city or battery standing in the state; it changes nothing when the status
\* is not PLAYING or nothing stands
C16_Spawner ==
  last.op = "update" =>
    \/ Prev = Before
    \/ /\ Before.status = "PLAYING"
       /\ Standing(Before) # {}
       /\ Len(Prev.rockets) = Len(Before.rockets) + 1
       /\ Prev = [Before EXCEPT !.rockets = Append(@, Prev.rockets[Len(Prev.rockets)])]
       /\ LET r == Prev.rockets[Len(Prev.rockets)]
          IN /\ r.pos.y = 0
             /\ 10 * r.speed = (8 + 2 * Before.level) * Unit
             /\ r.target \in Standing(Before)

\* structures `after` are structures `before`, none removed, moved or repaired
Permanent(before, after) ==
  /\ Len(after) = Len(before)
  /\ \A i \in 1..Len(before) :
       /\ after[i].id = before[i].id
       /\ after[i].pos = before[i].pos
       /\ before[i].destroyed => after[i].destroyed

\* C17: no handler other than initGame removes or moves a city or battery or
\* clears a destroyed flag, a tick that levels up included
C17_Permanent ==
  last.op # "initGame"
  => /\ Permanent(Before.cities, gameState.cities)
     /\ Permanent(Before.batteries, gameState.batteries)
     /\ Len(gameState.cities) = 6 /\ Len(gameState.batteries) = 3

\* a tick levelled up and resolved the impact on a battery, cities in ruins
C17_Witness ==
  /\ Ticked /\ gameState.level > Prev.level
  /\ \E i \in 1..Len(Prev.batteries) :
       ~Prev.batteries[i].destroyed /\ gameState.batteries[i].destroyed
  /\ \E i \in 1..Len(Prev.cities) :
       Prev.cities[i].destroyed /\ gameState.cities[i].destroyed

\* no two entries of s have the same id
UniqueIds(s) == \A i, j \in 1..Len(s) : i # j => s[i].id # s[j].id

\* C18: in every reachable state the rockets have distinct ids, the
\* interceptors have distinct ids and the explosions have distinct ids
C18_UniqueIds ==
  /\ UniqueIds(gameState.rockets)
  /\ UniqueIds(gameState.interceptors)
  /\ UniqueIds(gameState.explosions)

\* interceptor i1 is interceptor i0 one tick later
InterceptorMoved(i0, i1) ==
  /\ i1.id = i0.id /\ i1.origin = i0.origin /\ i1.batteryIndex = i0.batteryIndex
  /\ MovedBySpeed(i0, i1)

\* C19: every rocket and interceptor a tick works on has speed > 0; the ones
\* it moves are the ones with dist >= speed, so dist > 0 where it divides by
\* dist; one standing on its target (dist 0) takes the arrival branch and is
\* gone after the tick
C19_NoZeroDivision ==
  Ticked =>
    /\ \A k \in 1..Len(Prev.rockets) : Prev.rockets[k].speed > 0
    /\ \A k \in 1..Len(Prev.interceptors) : Prev.interceptors[k].speed > 0
    /\ \A j \in 1..Len(gameState.rockets) :
         \E k \in 1..Len(Prev.rockets) :
            /\ ~Reached(Prev.rockets[k])
            /\ Dist2(Prev.rockets[k].pos, Prev.rockets[k].target) > 0
            /\ MovedBySpeed(Prev.rockets[k], gameState.rockets[j])
    /\ \A j \in 1..Len(gameState.interceptors) :
         \E k \in 1..Len(Prev.interceptors) :
            /\ ~Reached(Prev.interceptors[k])
            /\ Dist2(Prev.interceptors[k].pos, Prev.interceptors[k].target) > 0
            /\ InterceptorMoved(Prev.interceptors[k], gameState.interceptors[j])
    /\ \A k \in 1..Len(Prev.rockets) :
         Prev.rockets[k].pos = Prev.rockets[k].target
         => /\ Reached(Prev.rockets[k])
            /\ Len(gameState.rockets) < Len(Prev.rockets)
    /\ \A k \in 1..Len(Prev.interceptors) :
         Prev.interceptors[k].pos = Prev.interceptors[k].target
         => /\ Reached(Prev.interceptors[k])
            /\ Len(gameState.interceptors) < Len(Prev.interceptors)

\* a tick met a rocket standing on its target and moved another rocket and an
\* interceptor
C19_Witness ==
  /\ Ticked
  /\ \E k \in 1..Len(Prev.rockets) : Prev.rockets[k].pos = Prev.rockets[k].target
  /\ gameState.rockets # <<>>
  /\ gameState.interceptors # <<>>

\* frames explosion e has left at most: its growth, then the 50 steps of alpha
Rank(e) ==
  IF e.growing THEN ((e.maxRadius - e.radius) \div ((3 * Unit) \div 2)) + 52
  ELSE e.alpha + 1

\* explosion e1 is explosion e0 one tick later
Decayed(e0, e1) ==
  /\ e1.id = e0.id /\ e1.pos = e0.pos /\ e1.maxRadius = e0.maxRadius
  /\ IF e0.growing
     THEN /\ 2 * e1.radius = 2 * e0.radius + 3 * Unit
          /\ e1.alpha = e0.alpha
          /\ e1.growing <=> e1.radius < e0.maxRadius
     ELSE /\ 4 * e1.radius = 4 * e0.radius - 3 * Unit
          /\ e1.alpha = e0.alpha - 1
          /\ ~e1.growing
  /\ Rank(e1) < Rank(e0)
  /\ Rank(e1) >= 1

\* every explosion a tick leaves is one it made or one it aged by a step
DecayStep ==
  Ticked =>
    LET made == Cardinality({k \in 1..Len(Prev.interceptors) :
                               Reached(Prev.interceptors[k])})
        n == Len(gameState.explosions)
    IN /\ n <= Len(Prev.explosions) + made
       /\ \A j \in 1..(n - made) :
            \E k \in 1..Len(Prev.explosions) :
               Decayed(Prev.explosions[k], gameState.explosions[j])

\* C20: a growing explosion gains 1.5 of radius per tick and turns to
\* shrinking once radius >= maxRadius; a shrinking one loses 0.75 of radius and
\* 0.02 of alpha per tick and never grows again; the frames it has left go
\* down with every tick, and while frames keep coming in PLAYING the
\* explosions on screen are eventually all removed
C20_Decay ==
  /\ []DecayStep
  /\ (gameState.explosions # <<>>) ~> (gameState.explosions = <<>>)

\* the last explosion, shrinking, left the screen in a tick that levelled up
\* no further
C20_Witness ==
  /\ Ticked /\ gameState.status = "PLAYING"
  /\ Len(Prev.explosions) = 1 /\ ~Prev.explosions[1].growing
  /\ Prev.interceptors = <<>>
  /\ gameState.explosions = <<>>
  /\ ticks > 25

\* C21: in every reachable state PLAYING goes with score < 3000 and a battery
\* standing, WON with score >= 3000, LOST with every battery destroyed and
\* score < 3000, and the status is never LEVEL_COMPLETE
C21_StatusConsistent ==
  /\ gameState.status = "PLAYING"
       => gameState.score < 3000 /\ ~NoBatteryLeft(gameState)
  /\ gameState.status = "WON" => gameState.score >= 3000
  /\ gameState.status = "LOST"
       => NoBatteryLeft(gameState) /\ gameState.score < 3000
  /\ gameState.status \in {"START", "PLAYING", "WON", "LOST"}

\* a tick on a lost game, run on the word of the state reference, won it
C21_Witness ==
  /\ Ticked /\ Prev.status = "LOST"
  /\ gameState.status = "WON" /\ NoBatteryLeft(gameState)

\* C22: in every reachable PLAYING state level = floor(score / 500) + 1; in
\* every reachable state 1 <= level <= 6 and score is a multiple of 50, not
\* negative
C22_LevelTracksScore ==
  /\ gameState.status = "PLAYING"
       => gameState.level = (gameState.score \div 500) + 1
  /\ gameState.level >= 1 /\ gameState.level <= 6
  /\ gameState.score >= 0 /\ gameState.score % 50 = 0

\* a tick with two kills took a PLAYING game past 500 points
C22_Witness ==
  /\ Ticked /\ gameState.status = "PLAYING"
  /\ gameState.score = Prev.score + 100
  /\ gameState.level = Prev.level + 1
  /\ gameState.score % 500 # 0

====
